---- MODULE Spec2Model ----
(***************************************************************************)
(* Model of Scripts/cf_waf_collector.py: the CloudflareCollector that      *)
(* splits a global time range into hours, plans query windows inside each  *)
(* hour by binary search against the truncation flag, caches the plans,    *)
(* and collects every window's records serially or on a thread pool.       *)
(*                                                                         *)
(* Time.  A datetime is an integer number of "float units"; there are FU   *)
(* float units in a second.  datetime objects only hold whole ticks        *)
(* (microseconds in Python, TicksPerSecond ticks per second here), floats  *)
(* hold every float unit.  strftime("%S") drops the sub-second part.       *)
(* Durations kept in floats (left, right, mid, optimal) are float units.   *)
(***************************************************************************)
EXTENDS Integers, Sequences, FiniteSets, TLC

\* ---------------------------------------------------------------- bounds
\* timedelta(hours=1), scaled from 3600 seconds
HourLen == 4
\* the global range lies within the first MaxHours hours
MaxHours == 2
\* resolution of a datetime, scaled from 10^6 microseconds per second
TicksPerSecond == 2
\* Config.BINARY_SEARCH_MAX_ITERATIONS, scaled from 12
BINARY_SEARCH_MAX_ITERATIONS == 2
\* Config.API_LIMIT and the "limit: 5000" of the GraphQL query, scaled
API_LIMIT == 2
\* number of firewall events the service holds
MaxRecords == 3
\* a "flaky" task meets at most MaxFaults failures
MaxFaults == 3
\* pool threads modelled (Config.MAX_CONCURRENT_HOURS ranges over 1..MaxWorkers)
MaxWorkers == 2
\* Config.MIN_WINDOW_SECONDS ranges over 1..MaxMinWindow
MaxMinWindow == 2
\* Config.BINARY_SEARCH_PRECISION_SECONDS ranges over 0..MaxPrecision
MaxPrecision == 1
\* collect_data is called MaxRuns times at most on one collector
MaxRuns == 2
\* FILTER_COUNTRIES lists MaxCountries countries at most
MaxCountries == 2
\* width of an IPv4 address, scaled from 32 bits
AddrBits == 4
\* width of the last byte of an address, scaled from 8 bits: a "/24" is a
\* network of prefix length AddrBits - HostBits
HostBits == 2
\* merge_overlapping_networks is given MaxNetworks distinct networks at most
MaxNetworks == 3
\* clean_mixed_ip_list is given MaxCleanNetworks distinct networks and MaxIps
\* distinct addresses at most
MaxCleanNetworks == 2
MaxIps == 3

\* ------------------------------------------------------ program constants
REQUEST_RETRY_COUNT == 3
REQUEST_RETRY_DELAY == 5

\* A ceiling of total_requests: an hour makes one query of the whole hour and,
\* for each of its windows (at most one a second), the probes of one search and
\* one query of collection, each attempted REQUEST_RETRY_COUNT times at most.
\* The guard of ReqRead only stops a retry loop that would not end.
MaxRequests ==
    MaxHours * REQUEST_RETRY_COUNT
        * (1 + HourLen * (BINARY_SEARCH_MAX_ITERATIONS + 1))

\* ------------------------------------------------------------- arithmetic
MaxT == MaxHours * HourLen
T == 0..MaxT
FU == TicksPerSecond * (2 ^ BINARY_SEARCH_MAX_ITERATIONS)
TickUnits == FU \div TicksPerSecond

Min2(a, b) == IF a <= b THEN a ELSE b
Max2(a, b) == IF a >= b THEN a ELSE b

\* timedelta(seconds=x) for a float x >= 0: rounded to the nearest tick,
\* ties to the even tick
timedelta(x) ==
    LET q == x \div TickUnits
        r == x % TickUnits
    IN  IF 2 * r < TickUnits THEN q * TickUnits
        ELSE IF 2 * r > TickUnits THEN (q + 1) * TickUnits
        ELSE IF q % 2 = 0 THEN q * TickUnits ELSE (q + 1) * TickUnits

\* dt.strftime("%Y-%m-%dT%H:%M:%SZ"): the whole second, sub-second part dropped
strftime(dt) == dt \div FU

\* datetime.strptime(s, "%Y-%m-%dT%H:%M:%SZ")
strptime(s) == s * FU

\* ------------------------------------------------------------ record bags
\* a collection of firewall events: how many events carry each timestamp
EmptyBag == [t \in T |-> 0]
BagSum(a, b) == [t \in T |-> a[t] + b[t]]

RECURSIVE SumFrom(_, _)
SumFrom(b, t) == IF t > MaxT THEN 0 ELSE b[t] + SumFrom(b, t + 1)
Count(b) == SumFrom(b, 0)

\* ------------------------------------------------------------------ state
VARIABLES
    config,          \* the Config attributes the run reads
    utc_start,       \* LOCAL_START_TIME as a UTC second
    utc_end,         \* self.utc_end_dt, as a UTC second
    records,         \* the events the query service holds, per timestamp
    inject,          \* which task's queries misbehave, and how
    harness,         \* TRUE: the same hour is handed out twice (same cache key)
    hour_ranges,     \* the hour starts collect_data hands out
    hour_cache,      \* self.hour_cache: cache key -> plan
    total_requests,  \* self.total_requests
    total_records,   \* self.total_records
    failed_hours,    \* self.failed_hours
    cache_hits,      \* self.cache_hits
    th,              \* each thread's position and local variables
    next_task,       \* index of the next hour to hand out
    results,         \* task -> what process_single_hour returned
    all_events,      \* collect_data's all_events
    consumed,        \* tasks whose result all_events already holds
    main_pc,         \* position of collect_data
    computes,        \* cache key -> number of plan computations started
    faults,          \* failures injected so far
    attempts_made,   \* requests sent so far, by all threads
    prior,           \* the statistics at the end of each earlier collect_data
    output,          \* what save_to_excel wrote
    sig,             \* two filter configurations and their cache keys
    ipv4             \* an input of IPV4-CLEAN-CIDR.py and what it gives

vars == <<config, utc_start, utc_end, records, inject, harness, hour_ranges,
          hour_cache, total_requests, total_records, failed_hours, cache_hits,
          th, next_task, results, all_events, consumed, main_pc, computes,
          faults, attempts_made, prior, output, sig, ipv4>>

\* the variables no step of collect_data changes
setup == <<config, utc_start, utc_end, records, inject, harness, prior,
           output, sig, ipv4>>

Threads == 1..MaxWorkers
Tasks == 1..Len(hour_ranges)
\* a task whose process_single_hour has not returned yet
NoResult == [done |-> FALSE, events |-> EmptyBag]

\* ----------------------------------------------------------- query service
\* The filter of build_api_filter is datetime_geq = start, datetime_leq = end:
\* both ends are inclusive.
Matching(s, e) == [t \in T |-> IF s <= t /\ t <= e THEN records[t] ELSE 0]

\* firewallEventsAdaptive(limit: ..., orderBy: [datetime_DESC]): the latest
\* API_LIMIT matching events
Served(s, e) ==
    LET m == Matching(s, e)
    IN  [t \in T |-> Max2(0, Min2(m[t], API_LIMIT - SumFrom(m, t + 1)))]

\* a mutant of Parsed: a response with a record is taken for a truncated one
Parsed_NonEmptyIsTruncated(s, e) ==
    LET events == Served(s, e)
        count == Count(events)
    IN  [events |-> events, count |-> count,
         is_truncated |-> (count > 0), outcome |-> "ok",
         attempts |-> 0, qs |-> s, qe |-> e]

\* the (events, count, is_truncated) of a parsed response (lines 385-404);
\* outcome, attempts, qs and qe record how the call went: its return path,
\* the attempts it made, the window it was called with
Parsed(s, e) ==
    LET events == Served(s, e)
        count == Count(events)
    IN  [events |-> events, count |-> count,
         is_truncated |-> (count = API_LIMIT), outcome |-> "ok",
         attempts |-> 0, qs |-> s, qe |-> e]

\* return [], 0, False
EmptyReturn(why) ==
    [events |-> EmptyBag, count |-> 0, is_truncated |-> FALSE, outcome |-> why,
     attempts |-> 0, qs |-> 0, qe |-> 0]

\* ------------------------------------------------- split_time_range_by_hour
RECURSIVE SplitFrom(_, _)
SplitFrom(current, end_dt) ==
    IF current < end_dt
    THEN LET next_time == Min2(current + HourLen, end_dt)
         IN  <<current>> \o SplitFrom(next_time, end_dt)
    ELSE <<>>

\* current = start_dt.replace(minute=0, second=0, microsecond=0)
split_time_range_by_hour(start_time, end_time) ==
    SplitFrom((start_time \div HourLen) * HourLen, end_time)

\* ------------------------------------- binary_search_optimal_window_seconds
hour_start_dt(i) == strptime(hour_ranges[i])
hour_end_dt(i) == Min2(hour_start_dt(i) + HourLen * FU, strptime(utc_end))

\* a mutant of cache_key: the key holds the day and not the hour
cache_key_ByDay(i) == hour_start_dt(i) \div (MaxHours * HourLen * FU)

\* hour_start_dt.strftime('%Y%m%d_%H') followed by the filter parts, which
\* do not change during a run
cache_key(i) == hour_start_dt(i) \div (HourLen * FU)

CachePut(cache, key, windows) ==
    [k \in DOMAIN cache \cup {key} |-> IF k = key THEN windows ELSE cache[k]]

MinWindow == config.MIN_WINDOW_SECONDS * FU
MaxWindow == config.MAX_WINDOW_SECONDS * FU
Precision == config.BINARY_SEARCH_PRECISION_SECONDS * FU

\* what a thread holds between two accesses to shared state (failure and
\* slept: how its last attempt failed and the seconds it slept since; asked:
\* the windows its collection loop has queried, in the order of the queries)
IdleLocal ==
    [pc |-> "idle", task |-> 0, site |-> "none", qs |-> 0, qe |-> 0,
     attempt |-> 0, tmp |-> 0, left |-> 0, right |-> 0, mid |-> 0,
     optimal |-> 0, iteration |-> 0, current |-> 0, windows |-> <<>>,
     widx |-> 0, hour_events |-> EmptyBag, plan_queries |-> 0,
     full_truncated |-> FALSE, probes |-> {}, ret |-> EmptyReturn("none"),
     full_ret |-> EmptyReturn("none"), sent |-> 0, req0 |-> 0,
     failure |-> "none", slept |-> 0, asked |-> <<>>]

\* entry of get_firewall_events_for_window(start_time, end_time); site names
\* the caller: "full" (line 442), "probe" (line 506) or "collect" (line 549)
BeginQuery(l, site, s, e) ==
    [l EXCEPT !.pc = "req_read", !.site = site, !.qs = s, !.qe = e,
              !.attempt = 0,
              !.plan_queries = IF site = "collect" THEN @ ELSE @ + 1,
              !.asked = IF site = "collect" THEN Append(@, <<s, e>>) ELSE @]

\* lines 445-449: the plan of a non-truncated hour.  A window is the dict of
\* the code, start, end and seconds; from, to and probes keep the datetimes
\* it was cut at and the <<duration, is_truncated>> of the probes of its search
SingleWindowPlan(i) ==
    << [start |-> hour_ranges[i], end |-> strftime(hour_end_dt(i)),
        seconds |-> HourLen * FU, from |-> hour_start_dt(i),
        to |-> hour_end_dt(i), probes |-> {}] >>

\* a mutant of ClampWindowEnd: the window is not cut at the hour's end
ClampWindowEnd_Unclamped(window_end_dt, end_dt) == window_end_dt

\* lines 473-474
ClampWindowEnd(window_end_dt, end_dt) ==
    IF window_end_dt > end_dt THEN end_dt ELSE window_end_dt

\* a mutant of SearchDone: the search takes no account of the precision
SearchDone_IgnorePrecision(l) == l.iteration >= BINARY_SEARCH_MAX_ITERATIONS

\* line 497: the search stops
SearchDone(l) ==
    \/ l.iteration >= BINARY_SEARCH_MAX_ITERATIONS
    \/ l.right - l.left <= Precision

\* The operators below take a thread's local state l and give the local state
\* at its next access to shared state.  Each binds its arguments with a
\* quantifier, so that TLC evaluates an argument once and not at each use.

\* a mutant of AfterProbe: a truncated probe is taken as the answer
AfterProbe_AdoptTruncated(l, is_truncated) ==
    IF is_truncated
    THEN [l EXCEPT !.optimal = l.mid, !.right = l.mid - Precision,
                   !.iteration = @ + 1,
                   !.probes = @ \cup {<<l.mid, is_truncated>>}]
    ELSE [l EXCEPT !.optimal = l.mid, !.left = l.mid + Precision,
                   !.iteration = @ + 1,
                   !.probes = @ \cup {<<l.mid, is_truncated>>}]

\* a mutant of AfterProbe: after a truncated probe half its duration is taken
AfterProbe_HalveOnTruncate(l, is_truncated) ==
    IF is_truncated
    THEN [l EXCEPT !.optimal = l.mid \div 2, !.right = l.mid - Precision,
                   !.iteration = @ + 1,
                   !.probes = @ \cup {<<l.mid, is_truncated>>}]
    ELSE [l EXCEPT !.optimal = l.mid, !.left = l.mid + Precision,
                   !.iteration = @ + 1,
                   !.probes = @ \cup {<<l.mid, is_truncated>>}]

\* a mutant of AfterProbe: after a probe that is not truncated the search goes
\* on among the shorter durations
AfterProbe_ShrinkOnSuccess(l, is_truncated) ==
    IF is_truncated
    THEN [l EXCEPT !.right = l.mid - Precision, !.iteration = @ + 1,
                   !.probes = @ \cup {<<l.mid, is_truncated>>}]
    ELSE [l EXCEPT !.optimal = l.mid, !.right = l.mid - Precision,
                   !.iteration = @ + 1,
                   !.probes = @ \cup {<<l.mid, is_truncated>>}]

\* lines 508-512: the bounds after a probe of l.mid
AfterProbe(local, truncated) ==
    CHOOSE next \in {
        IF is_truncated
        THEN [l EXCEPT !.right = l.mid - Precision, !.iteration = @ + 1,
                       !.probes = @ \cup {<<l.mid, is_truncated>>}]
        ELSE [l EXCEPT !.optimal = l.mid, !.left = l.mid + Precision,
                       !.iteration = @ + 1,
                       !.probes = @ \cup {<<l.mid, is_truncated>>}]
      : l \in {local}, is_truncated \in {truncated} } : TRUE

RECURSIVE PlanLoop(_), SearchStep(_), AcceptWindow(_)

\* a mutant of PlanLoop: the search takes no account of MAX_WINDOW_SECONDS
PlanLoop_IgnoreMax(l) ==
    IF l.current < hour_end_dt(l.task)
    THEN LET remaining_seconds == hour_end_dt(l.task) - l.current
         IN  SearchStep([l EXCEPT !.left = MinWindow,
                                  !.right = remaining_seconds,
                                  !.optimal = MinWindow, !.iteration = 0])
    ELSE [l EXCEPT !.pc = "store", !.site = "none"]

\* lines 463-470: the planning loop, up to its next query or its end
PlanLoop(local) ==
    CHOOSE next \in {
        IF l.current < hour_end_dt(l.task)
        THEN LET remaining_seconds == hour_end_dt(l.task) - l.current
                 max_seconds == Min2(remaining_seconds, MaxWindow)
             IN  SearchStep([l EXCEPT !.left = MinWindow, !.right = max_seconds,
                                      !.optimal = MinWindow, !.iteration = 0])
        ELSE [l EXCEPT !.pc = "store", !.site = "none"]
      : l \in {local} } : TRUE

\* lines 496-506: one turn of find_optimal_seconds' loop
SearchStep(local) ==
    CHOOSE next \in {
        IF SearchDone(l)
        THEN AcceptWindow(l)
        ELSE LET mid_seconds == (l.left + l.right) \div 2
             IN  BeginQuery([l EXCEPT !.mid = mid_seconds], "probe",
                            strftime(l.current),
                            strftime(l.current + timedelta(mid_seconds)))
      : l \in {local} } : TRUE

\* lines 472-482: the window of the duration find_optimal_seconds returned
AcceptWindow(local) ==
    CHOOSE next \in {
        LET window_end_dt == ClampWindowEnd(l.current + timedelta(l.optimal),
                                            hour_end_dt(l.task))
            window == [start |-> strftime(l.current),
                       end |-> strftime(window_end_dt),
                       seconds |-> l.optimal, from |-> l.current,
                       to |-> window_end_dt, probes |-> l.probes]
        IN  PlanLoop([l EXCEPT !.windows = Append(@, window),
                               !.current = window_end_dt,
                               !.left = 0, !.right = 0, !.mid = 0,
                               !.optimal = 0, !.iteration = 0,
                               !.probes = {}])
      : l \in {local} } : TRUE

\* a mutant of AfterFull: the hour is always split
AfterFull_AlwaysSplit(l, r) ==
    PlanLoop([l EXCEPT !.windows = <<>>, !.current = hour_start_dt(l.task)])

\* lines 444-461: after the query of the whole hour
AfterFull(local, result) ==
    CHOOSE next \in {
        IF ~r.is_truncated
        THEN [l EXCEPT !.windows = SingleWindowPlan(l.task), !.pc = "store",
                       !.site = "none"]
        ELSE PlanLoop([l EXCEPT !.windows = <<>>,
                                !.current = hour_start_dt(l.task)])
      : l \in {local}, r \in {result} } : TRUE

\* a mutant of CollectLoop: the windows are queried from the last to the first
CollectLoop_Backwards(l) ==
    IF l.widx <= Len(l.windows)
    THEN BeginQuery(l, "collect", l.windows[Len(l.windows) + 1 - l.widx].start,
                    l.windows[Len(l.windows) + 1 - l.widx].end)
    ELSE [l EXCEPT !.pc = "rec_read", !.site = "none"]

\* lines 548-559: the collection loop, up to its next query or its end
CollectLoop(local) ==
    CHOOSE next \in {
        IF l.widx <= Len(l.windows)
        THEN BeginQuery(l, "collect", l.windows[l.widx].start,
                        l.windows[l.widx].end)
        ELSE [l EXCEPT !.pc = "rec_read", !.site = "none"]
      : l \in {local} } : TRUE

\* lines 553-554
AfterCollect(local, result) ==
    CHOOSE next \in {
        CollectLoop([l EXCEPT !.hour_events = BagSum(@, r.events),
                              !.widx = @ + 1])
      : l \in {local}, r \in {result} } : TRUE

\* get_firewall_events_for_window returns r to the caller it was called from
\* (ret keeps what the last call returned, full_ret and full_truncated what
\* the call for the whole hour returned)
ReturnQuery(local, result) ==
    CHOOSE next \in {
        LET l2 == [l EXCEPT !.ret = r,
                            !.full_ret = IF l.site = "full" THEN r ELSE @,
                            !.full_truncated = IF l.site = "full"
                                               THEN r.is_truncated ELSE @]
        IN  CASE l.site = "full" -> AfterFull(l2, r)
              [] l.site = "probe" -> SearchStep(AfterProbe(l2, r.is_truncated))
              [] OTHER -> AfterCollect(l2, r)
      : l \in {local}, r \in {result} } : TRUE

\* ------------------------------------------------------------ collect_data
\* line 599
Parallel == config.ENABLE_PARALLEL /\ Len(hour_ranges) > 1

\* a mutant of ActiveWorkers: the pool takes no account of MAX_CONCURRENT_HOURS
ActiveWorkers_Unbounded == IF Parallel THEN MaxWorkers ELSE 1

\* ThreadPoolExecutor(max_workers=MAX_CONCURRENT_HOURS); the serial loop runs
\* on one thread
ActiveWorkers == IF Parallel THEN config.MAX_CONCURRENT_HOURS ELSE 1

\* the queries of task i misbehave
Injected(i) == i \in inject.tasks

\* task i may meet one more failure
MayFail(i) ==
    /\ Injected(i)
    /\ inject.kind \in {"permanent", "flaky"}
    /\ inject.kind = "flaky" => faults < MaxFaults

\* task i may meet a failure of the kinds only "flaky" tasks meet
MayMisbehave(i) == Injected(i) /\ inject.kind = "flaky" /\ faults < MaxFaults

\* a statement of task i may raise
MayRaise(i) ==
    \/ MayMisbehave(i)
    \/ Injected(i) /\ inject.kind = "raise"

\* lines 580-592: the hours of the configured range
CollectStart ==
    /\ main_pc = "start"
    /\ ~harness
    /\ hour_ranges' = split_time_range_by_hour(utc_start, utc_end)
    /\ results' = [i \in 1..Len(hour_ranges') |-> NoResult]
    /\ main_pc' = "running"
    /\ UNCHANGED <<setup,
                   hour_cache, total_requests, total_records, failed_hours,
                   cache_hits, th, next_task, all_events, consumed, computes,
                   faults, attempts_made>>

\* callers that ask for the same hour twice, hence the same cache key
SameKeyStart ==
    /\ main_pc = "start"
    /\ harness
    /\ LET hours == split_time_range_by_hour(utc_start, utc_end)
       IN  hour_ranges' = IF hours = <<>> THEN <<>>
                          ELSE <<hours[1], hours[1]>>
    /\ results' = [i \in 1..Len(hour_ranges') |-> NoResult]
    /\ main_pc' = "running"
    /\ UNCHANGED <<setup,
                   hour_cache, total_requests, total_records, failed_hours,
                   cache_hits, th, next_task, all_events, consumed, computes,
                   faults, attempts_made>>

\* lines 605 and 627, 536-543: a thread starts process_single_hour on the next
\* hour (the idle thread of lowest index takes it); req0 keeps total_requests
\* as the serial loop, the one thread that writes it, finds it
StartTask(t) ==
    /\ main_pc = "running"
    /\ next_task <= Len(hour_ranges)
    /\ t <= ActiveWorkers
    /\ th[t].pc = "idle"
    /\ \A u \in 1..(t - 1) : th[u].pc # "idle"
    /\ th' = [th EXCEPT ![t] = [IdleLocal EXCEPT
                                    !.pc = "lookup", !.task = next_task,
                                    !.req0 = IF Parallel THEN 0
                                             ELSE total_requests]]
    /\ next_task' = next_task + 1
    /\ UNCHANGED <<setup,
                   hour_ranges, hour_cache, total_requests, total_records,
                   failed_hours, cache_hits, results, all_events, consumed,
                   main_pc, computes, faults, attempts_made>>

\* lines 436-437: the key is cached; cache_hits is read
CacheHit(t) ==
    /\ th[t].pc = "lookup"
    /\ cache_key(th[t].task) \in DOMAIN hour_cache
    /\ th' = [th EXCEPT ![t].pc = "hit_write", ![t].tmp = cache_hits]
    /\ UNCHANGED <<setup,
                   hour_ranges, hour_cache, total_requests, total_records,
                   failed_hours, cache_hits, next_task, results, all_events,
                   consumed, main_pc, computes, faults, attempts_made>>

\* lines 437-438, 546-548: cache_hits is written, the cached plan is returned
\* and its collection starts
HitWrite(t) ==
    /\ th[t].pc = "hit_write"
    /\ cache_hits' = th[t].tmp + 1
    /\ th' = [th EXCEPT ![t] =
                CollectLoop([th[t] EXCEPT
                    !.tmp = 0,
                    !.windows = hour_cache[cache_key(th[t].task)],
                    !.widx = 1, !.hour_events = EmptyBag])]
    /\ UNCHANGED <<setup,
                   hour_ranges, hour_cache, total_requests, total_records,
                   failed_hours, next_task, results, all_events, consumed,
                   main_pc, computes, faults, attempts_made>>

\* lines 436, 440-442: the key is not cached; the whole hour is queried
CacheMiss(t) ==
    /\ th[t].pc = "lookup"
    /\ cache_key(th[t].task) \notin DOMAIN hour_cache
    /\ th' = [th EXCEPT ![t] =
                BeginQuery(th[t], "full", hour_ranges[th[t].task],
                           strftime(hour_end_dt(th[t].task)))]
    /\ computes' = [computes EXCEPT ![cache_key(th[t].task)] = @ + 1]
    /\ UNCHANGED <<setup,
                   hour_ranges, hour_cache, total_requests, total_records,
                   failed_hours, cache_hits, next_task, results, all_events,
                   consumed, main_pc, faults, attempts_made>>

\* --------------------------------------------- get_firewall_events_for_window
\* a mutant of CountAttempt: the attempt is not counted
CountAttempt_Forgotten(read) == read

\* line 351: self.total_requests += 1, the value written for the value read
CountAttempt(read) == read + 1

\* a mutant of RetriesLeft: the retries never run out
RetriesLeft_Always(attempt) == TRUE

\* line 349: for attempt in range(REQUEST_RETRY_COUNT) has another turn
RetriesLeft(attempt) == attempt + 1 < REQUEST_RETRY_COUNT

\* line 353: requests.post sends one more request for the hour of l
Sent(l) == [l EXCEPT !.sent = @ + 1]

\* the call of thread-local state l returns r
Returned(local, result) ==
    CHOOSE next \in {
        ReturnQuery([l EXCEPT !.tmp = 0],
                    [r EXCEPT !.attempts = l.attempt + 1, !.qs = l.qs,
                              !.qe = l.qe])
      : l \in {local}, r \in {result} } : TRUE

\* The failures the loop goes on after: status 429 (lines 357-360), another
\* status that is not 200, of the server (5xx) or of the client (401, 400)
\* (lines 362-365), a body that is no JSON (lines 366-370), an API error that
\* names no field (lines 372-383), a timeout or another exception (lines
\* 406-411).
StatusKinds == {"rate_limit", "server_error", "unauthorized", "bad_request"}
TransientKinds == StatusKinds \cup {"bad_json", "api_error", "timeout"}

\* the seconds slept between a failure of the kind at the attempt and the
\* next turn of the loop: lines 359 and 364 sleep, lines 370 and 383 go on
\* at once, lines 413-414 sleep unless the attempt is the last
RetryDelay(kind, attempt) ==
    IF kind \in StatusKinds THEN REQUEST_RETRY_DELAY
    ELSE IF kind \in {"bad_json", "api_error"} THEN 0
    ELSE IF attempt < REQUEST_RETRY_COUNT - 1 THEN REQUEST_RETRY_DELAY
    ELSE 0

\* line 351, first half: total_requests is read
ReqRead(t) ==
    /\ th[t].pc = "req_read"
    /\ total_requests < MaxRequests
    /\ th' = [th EXCEPT ![t].pc = "req_send", ![t].tmp = total_requests,
                        ![t].failure = "none", ![t].slept = 0]
    /\ UNCHANGED <<setup, hour_ranges, hour_cache, total_requests,
                   total_records, failed_hours, cache_hits, next_task, results,
                   all_events, consumed, main_pc, computes, faults,
                   attempts_made>>

\* lines 351-401: total_requests is written, the request is answered with
\* data, and the call returns (events, count, is_truncated)
SendOk(t) ==
    /\ th[t].pc = "req_send"
    /\ ~(Injected(th[t].task) /\ inject.kind = "permanent")
    /\ total_requests' = CountAttempt(th[t].tmp)
    /\ attempts_made' = attempts_made + 1
    /\ th' = [th EXCEPT ![t] =
                Returned(Sent(th[t]), Parsed(th[t].qs, th[t].qe))]
    /\ UNCHANGED <<setup, hour_ranges, hour_cache, total_records, failed_hours,
                   cache_hits, next_task, results, all_events, consumed,
                   main_pc, computes, faults>>

\* lines 357-371, 383, 406-417: the attempt fails in a way that is retried
\* (429, another HTTP status, a body that is no JSON, an API error naming no
\* field, an exception of requests); the last attempt returns [], 0, False
SendTransient(t) ==
    /\ th[t].pc = "req_send"
    /\ MayFail(th[t].task)
    /\ faults' = faults + 1
    /\ total_requests' = CountAttempt(th[t].tmp)
    /\ attempts_made' = attempts_made + 1
    /\ \E kind \in TransientKinds :
         th' = [th EXCEPT ![t] =
                 IF RetriesLeft(th[t].attempt)
                 THEN [Sent(th[t]) EXCEPT
                         !.pc = "req_read", !.attempt = @ + 1, !.tmp = 0,
                         !.failure = kind,
                         !.slept = RetryDelay(kind, th[t].attempt)]
                 ELSE Returned(Sent(th[t]), EmptyReturn("exhausted"))]
    /\ UNCHANGED <<setup, hour_ranges, hour_cache, total_records, failed_hours,
                   cache_hits, next_task, results, all_events, consumed,
                   main_pc, computes>>

\* a mutant of SendUnsupported: the error is taken for one of those the loop
\* goes on after
SendUnsupported_Retried(t) ==
    /\ th[t].pc = "req_send"
    /\ MayMisbehave(th[t].task)
    /\ faults' = faults + 1
    /\ total_requests' = CountAttempt(th[t].tmp)
    /\ attempts_made' = attempts_made + 1
    /\ th' = [th EXCEPT ![t] =
                IF RetriesLeft(th[t].attempt)
                THEN [Sent(th[t]) EXCEPT
                        !.pc = "req_read", !.attempt = @ + 1, !.tmp = 0,
                        !.failure = "unsupported_field"]
                ELSE Returned(Sent(th[t]), EmptyReturn("exhausted"))]
    /\ UNCHANGED <<setup, hour_ranges, hour_cache, total_records, failed_hours,
                   cache_hits, next_task, results, all_events, consumed,
                   main_pc, computes>>

\* lines 373-382: the response names an unsupported field
SendUnsupported(t) ==
    /\ th[t].pc = "req_send"
    /\ MayMisbehave(th[t].task)
    /\ faults' = faults + 1
    /\ total_requests' = CountAttempt(th[t].tmp)
    /\ attempts_made' = attempts_made + 1
    /\ th' = [th EXCEPT ![t] =
                Returned(Sent(th[t]), EmptyReturn("unsupported"))]
    /\ UNCHANGED <<setup, hour_ranges, hour_cache, total_records, failed_hours,
                   cache_hits, next_task, results, all_events, consumed,
                   main_pc, computes>>

\* lines 402-404: the response carries no data
SendNoData(t) ==
    /\ th[t].pc = "req_send"
    /\ MayMisbehave(th[t].task)
    /\ faults' = faults + 1
    /\ total_requests' = CountAttempt(th[t].tmp)
    /\ attempts_made' = attempts_made + 1
    /\ th' = [th EXCEPT ![t] =
                Returned(Sent(th[t]), EmptyReturn("nodata"))]
    /\ UNCHANGED <<setup, hour_ranges, hour_cache, total_records, failed_hours,
                   cache_hits, next_task, results, all_events, consumed,
                   main_pc, computes>>

\* ------------------------------------------------------ process_single_hour
\* a mutant of StorePlan: the records of the query of the whole hour are kept
\* and a plan of one window is not queried again
StorePlan_KeepPlanningRecords(t) ==
    /\ th[t].pc = "store"
    /\ hour_cache' = CachePut(hour_cache, cache_key(th[t].task), th[t].windows)
    /\ th' = [th EXCEPT ![t] =
                IF th[t].plan_queries = 1
                THEN [th[t] EXCEPT !.pc = "rec_read", !.site = "none",
                                   !.current = 0, !.widx = 2,
                                   !.hour_events = th[t].ret.events]
                ELSE CollectLoop([th[t] EXCEPT !.current = 0, !.widx = 1,
                                               !.hour_events = EmptyBag])]
    /\ UNCHANGED <<setup, hour_ranges, total_requests, total_records,
                   failed_hours, cache_hits, next_task, results, all_events,
                   consumed, main_pc, computes, faults, attempts_made>>

\* lines 450 and 485, 543-548: the plan is cached and returned, its collection
\* starts
StorePlan(t) ==
    /\ th[t].pc = "store"
    /\ hour_cache' = CachePut(hour_cache, cache_key(th[t].task), th[t].windows)
    /\ th' = [th EXCEPT ![t] =
                CollectLoop([th[t] EXCEPT !.current = 0, !.widx = 1,
                                          !.hour_events = EmptyBag])]
    /\ UNCHANGED <<setup, hour_ranges, total_requests, total_records,
                   failed_hours, cache_hits, next_task, results, all_events,
                   consumed, main_pc, computes, faults, attempts_made>>

\* line 561, first half: total_records is read
RecRead(t) ==
    /\ th[t].pc = "rec_read"
    /\ th' = [th EXCEPT ![t].pc = "rec_write", ![t].tmp = total_records]
    /\ UNCHANGED <<setup, hour_ranges, hour_cache, total_requests,
                   total_records, failed_hours, cache_hits, next_task, results,
                   all_events, consumed, main_pc, computes, faults,
                   attempts_made>>

\* line 561, second half: total_records is written
RecWrite(t) ==
    /\ th[t].pc = "rec_write"
    /\ total_records' = th[t].tmp + Count(th[t].hour_events)
    /\ th' = [th EXCEPT ![t].pc = "finish", ![t].tmp = 0]
    /\ UNCHANGED <<setup, hour_ranges, hour_cache, total_requests,
                   failed_hours, cache_hits, next_task, results, all_events,
                   consumed, main_pc, computes, faults, attempts_made>>

\* what process_single_hour returned reaches collect_data: the future of the
\* task holds it (parallel), or line 628 extends all_events with it (serial)
Deliver(task, hour_events) ==
    /\ results' = [results EXCEPT ![task] = [done |-> TRUE,
                                             events |-> hour_events]]
    /\ IF Parallel
       THEN UNCHANGED <<all_events, consumed>>
       ELSE /\ all_events' = BagSum(all_events, hour_events)
            /\ consumed' = consumed \cup {task}

\* lines 563-568: return hour_events
Finish(t) ==
    /\ th[t].pc = "finish"
    /\ Deliver(th[t].task, th[t].hour_events)
    /\ th' = [th EXCEPT ![t] = IdleLocal]
    /\ UNCHANGED <<setup, hour_ranges, hour_cache, total_requests,
                   total_records, failed_hours, cache_hits, next_task, main_pc,
                   computes, faults, attempts_made>>

\* the statements of the try block outside get_firewall_events_for_window's
\* own try (the prints of lines 540, 441, 458, 486, 564, 566, of
\* build_api_filter, line 554) run when the thread is at one of these places
CanRaise(l) ==
    \/ l.pc \in {"lookup", "rec_read", "finish"}
    \/ l.pc = "req_read" /\ l.attempt = 0

\* lines 570-572: an exception leaves the try block; the handler reads
\* failed_hours
Raise(t) ==
    /\ CanRaise(th[t])
    /\ MayRaise(th[t].task)
    /\ faults' = faults + 1
    /\ th' = [th EXCEPT ![t] = [IdleLocal EXCEPT !.pc = "fail_write",
                                                 !.task = th[t].task,
                                                 !.tmp = failed_hours]]
    /\ UNCHANGED <<setup, hour_ranges, hour_cache, total_requests,
                   total_records, failed_hours, cache_hits, next_task, results,
                   all_events, consumed, main_pc, computes, attempts_made>>

\* a mutant of FailWrite: the exception leaves process_single_hour and ends
\* collect_data
FailWrite_Propagates(t) ==
    /\ th[t].pc = "fail_write"
    /\ main_pc' = "done"
    /\ th' = [th EXCEPT ![t] = IdleLocal]
    /\ UNCHANGED <<setup, hour_ranges, hour_cache, total_requests,
                   total_records, failed_hours, cache_hits, next_task, results,
                   all_events, consumed, computes, faults, attempts_made>>

\* lines 572-573: failed_hours is written; return []
FailWrite(t) ==
    /\ th[t].pc = "fail_write"
    /\ failed_hours' = th[t].tmp + 1
    /\ Deliver(th[t].task, EmptyBag)
    /\ th' = [th EXCEPT ![t] = IdleLocal]
    /\ UNCHANGED <<setup, hour_ranges, hour_cache, total_requests,
                   total_records, cache_hits, next_task, main_pc, computes,
                   faults, attempts_made>>

\* a mutant of Aggregate: the result of a future takes the place of all_events
Aggregate_Overwrites ==
    /\ main_pc = "running"
    /\ Parallel
    /\ \E i \in Tasks \ consumed :
         /\ results[i].done
         /\ all_events' = results[i].events
         /\ consumed' = consumed \cup {i}
    /\ UNCHANGED <<setup, hour_ranges, hour_cache, total_requests,
                   total_records, failed_hours, cache_hits, th, next_task,
                   results, main_pc, computes, faults, attempts_made>>

\* lines 610-613: as_completed yields a finished future, all_events is
\* extended with its result
Aggregate ==
    /\ main_pc = "running"
    /\ Parallel
    /\ \E i \in Tasks \ consumed :
         /\ results[i].done
         /\ all_events' = BagSum(all_events, results[i].events)
         /\ consumed' = consumed \cup {i}
    /\ UNCHANGED <<setup, hour_ranges, hour_cache, total_requests,
                   total_records, failed_hours, cache_hits, th, next_task,
                   results, main_pc, computes, faults, attempts_made>>

\* a mutant of CollectReturn: collect_data returns while hours are out
CollectReturn_Early ==
    /\ main_pc = "running"
    /\ main_pc' = "done"
    /\ UNCHANGED <<setup, hour_ranges, hour_cache, total_requests,
                   total_records, failed_hours, cache_hits, th, next_task,
                   results, all_events, consumed, computes, faults,
                   attempts_made>>

\* line 634: every hour is in all_events; return all_events
CollectReturn ==
    /\ main_pc = "running"
    /\ consumed = Tasks
    /\ main_pc' = "done"
    /\ UNCHANGED <<setup, hour_ranges, hour_cache, total_requests,
                   total_records, failed_hours, cache_hits, th, next_task,
                   results, all_events, consumed, computes, faults,
                   attempts_made>>

\* ---------------------------------------------------------------------- run
\* nothing is written
NoOutput == [written |-> FALSE, events |-> EmptyBag]

\* the statistics of the collector
Statistics ==
    [total_requests |-> total_requests, total_records |-> total_records,
     failed_hours |-> failed_hours, cache_hits |-> cache_hits,
     count |-> Count(all_events)]

\* lines 720-723, 636-709: run hands what collect_data returned to
\* save_to_excel, which writes a file when there is a record to write
Save ==
    /\ main_pc = "done"
    /\ output' = [written |-> Count(all_events) > 0, events |-> all_events]
    /\ main_pc' = "saved"
    /\ UNCHANGED <<config, utc_start, utc_end, records, inject, harness, prior,
                   sig, ipv4, hour_ranges, hour_cache, total_requests,
                   total_records, failed_hours, cache_hits, th, next_task,
                   results, all_events, consumed, computes, faults,
                   attempts_made>>

\* lines 575-597: collect_data is called again on the same collector, with
\* the same configuration and against the same records; hour_cache and the
\* counters of __init__ are those the call before left (and, the range being
\* the same, hour_ranges is the list the call before computed)
Rerun ==
    /\ main_pc = "done"
    /\ Len(prior) + 1 < MaxRuns
    /\ \A t \in Threads : th[t].pc = "idle"
    /\ inject.kind = "none"
    /\ ~harness
    /\ prior' = Append(prior, Statistics)
    /\ results' = [i \in Tasks |-> NoResult]
    /\ all_events' = EmptyBag
    /\ consumed' = {}
    /\ next_task' = 1
    /\ main_pc' = "start"
    /\ UNCHANGED <<config, utc_start, utc_end, records, inject, harness, output,
                   sig, ipv4, hour_ranges, hour_cache, total_requests,
                   total_records, failed_hours, cache_hits, th, computes,
                   faults, attempts_made>>

\* ---------------------------------------------------------------- cache key
Countries == {"CN", "RU", "US"}

\* FILTER_COUNTRIES: a list of countries, none twice
CountryLists ==
    {c \in UNION {[1..n -> Countries] : n \in 0..MaxCountries} :
        \A i, j \in 1..Len(c) : c[i] = c[j] => i = j}

\* TARGET_RULE_ID, a string of characters
RuleIds == {<<>>, <<"a", "b">>, <<"a", "b", "c", "d">>}

\* TARGET_RULE_ID[:8], the length scaled
RulePrefixLen == 3
Prefix(rule_id) == SubSeq(rule_id, 1, Min2(Len(rule_id), RulePrefixLen))

\* lines 427-432: the parts of the key that come from the filters
filter_key_parts(rule_id, enable_country_filter, countries) ==
    (IF rule_id # <<>> THEN <<Prefix(rule_id)>> ELSE <<>>)
        \o (IF enable_country_filter /\ countries # <<>>
            THEN [i \in 1..Len(countries) |-> <<countries[i]>>]
            ELSE <<>>)

\* line 434: the hour, then the parts, joined by "_" (a part holds no "_", so
\* the joined string is told by the sequence of its parts)
cache_key_string(hour, parts) == <<hour>> \o parts

NoSig ==
    [stage |-> "none", rule_id |-> <<>>, enable |-> FALSE, a |-> <<>>,
     b |-> <<>>, key_a |-> <<>>, key_b |-> <<>>]

\* two configurations that differ in FILTER_COUNTRIES at most
DrawFilters ==
    /\ sig.stage = "none"
    /\ \E r \in RuleIds, en \in BOOLEAN, a \in CountryLists,
          b \in CountryLists :
          sig' = [NoSig EXCEPT !.stage = "drawn", !.rule_id = r,
                               !.enable = en, !.a = a, !.b = b]
    /\ UNCHANGED <<config, utc_start, utc_end, records, inject, harness, prior,
                   output, ipv4, hour_ranges, hour_cache, total_requests,
                   total_records, failed_hours, cache_hits, th, next_task,
                   results, all_events, consumed, main_pc, computes, faults,
                   attempts_made>>

\* lines 427-434 under each configuration, for the hour of utc_start
BuildKeys ==
    /\ sig.stage = "drawn"
    /\ LET hour == utc_start \div HourLen
       IN  sig' = [sig EXCEPT
                    !.stage = "built",
                    !.key_a = cache_key_string(hour,
                                filter_key_parts(sig.rule_id, sig.enable,
                                                 sig.a)),
                    !.key_b = cache_key_string(hour,
                                filter_key_parts(sig.rule_id, sig.enable,
                                                 sig.b))]
    /\ UNCHANGED <<config, utc_start, utc_end, records, inject, harness, prior,
                   output, ipv4, hour_ranges, hour_cache, total_requests,
                   total_records, failed_hours, cache_hits, th, next_task,
                   results, all_events, consumed, main_pc, computes, faults,
                   attempts_made>>

\* --------------------------------------------------------- IPV4-CLEAN-CIDR
\* An address is a number of AddrBits bits, a network an object of its address
\* and its prefix length, as ipaddress.IPv4Address and ipaddress.IPv4Network.
Addresses == 0..(2 ^ AddrBits - 1)
NetworkSize(prefixlen) == 2 ^ (AddrBits - prefixlen)
Networks ==
    {n \in [addr : Addresses, prefixlen : 0..AddrBits] :
        n.addr % NetworkSize(n.prefixlen) = 0}

network_address(n) == n.addr
broadcast_address(n) == n.addr + NetworkSize(n.prefixlen) - 1

\* ip in network
InNetwork(ip, n) == network_address(n) <= ip /\ ip <= broadcast_address(n)

\* a.supernet_of(b), b.subnet_of(a)
supernet_of(a, b) ==
    /\ network_address(a) <= network_address(b)
    /\ broadcast_address(a) >= broadcast_address(b)

\* the order of IPv4Network objects: by address, then by netmask
NetworkLess(a, b) ==
    \/ a.addr < b.addr
    \/ a.addr = b.addr /\ a.prefixlen < b.prefixlen

\* sorted(set(network_list))
RECURSIVE SortedNetworks(_)
SortedNetworks(S) ==
    IF S = {} THEN <<>>
    ELSE LET first == CHOOSE x \in S : \A y \in S : y = x \/ NetworkLess(x, y)
         IN  <<first>> \o SortedNetworks(S \ {first})

\* network_address.packed[:3]
FirstBytes(n) == network_address(n) \div (2 ^ HostBits)

\* IPv4Network(f"{c_segment_ip}/24"), the C segment of the bytes
CSegment(bytes) ==
    [addr |-> bytes * (2 ^ HostBits), prefixlen |-> AddrBits - HostBits]

\* last_merged.broadcast_address + 1: an IPv4Address holds AddrBits bits, and
\* the sum raises AddressValueError past the last address
AddressOverflows(n) == broadcast_address(n) + 1 > 2 ^ AddrBits - 1

\* lines 105-132: one turn of the loop, merged not empty
MergeStep(merged, current) ==
    LET last_merged == merged[Len(merged)]
        replace(n) == [merged EXCEPT ![Len(merged)] = n]
    IN  IF /\ network_address(current) <= broadcast_address(last_merged) + 1
           /\ broadcast_address(current) >= network_address(last_merged)
        THEN IF supernet_of(current, last_merged) THEN replace(current)
             ELSE IF supernet_of(last_merged, current) THEN merged
             ELSE IF FirstBytes(current) = FirstBytes(last_merged)
                  THEN replace(CSegment(FirstBytes(current)))
                  ELSE Append(merged, current)
        ELSE Append(merged, current)

\* what a call gives: the list it returns, or the exception it raises
Returns(list) == [raised |-> FALSE, list |-> list]
Raises == [raised |-> TRUE, list |-> <<>>]

\* lines 103-134: the loop over sorted_networks[1:]
RECURSIVE MergeLoop(_, _)
MergeLoop(merged, rest) ==
    IF rest = <<>> THEN Returns(merged)
    ELSE IF AddressOverflows(merged[Len(merged)]) THEN Raises
    ELSE MergeLoop(MergeStep(merged, Head(rest)), Tail(rest))

\* lines 87-134; the list is told by its set, line 101 making a set of it
merge_overlapping_networks(network_list) ==
    IF network_list = {} THEN Returns(<<>>)
    ELSE LET sorted_networks == SortedNetworks(network_list)
         IN  MergeLoop(<<Head(sorted_networks)>>, Tail(sorted_networks))

\* lines 137-165: the addresses no network holds, and how many one holds
filter_ips_by_networks(ip_list, network_list) ==
    LET covered == {ip \in ip_list :
                       \E k \in 1..Len(network_list) :
                           InNetwork(ip, network_list[k])}
    IN  [filtered_ips |-> ip_list \ covered,
         covered_count |-> Cardinality(covered)]

\* lines 168-185: the addresses of each C segment that holds one
group_ips_by_c_segment(ip_list) ==
    [bytes \in {ip \div (2 ^ HostBits) : ip \in ip_list} |->
        {ip \in ip_list : ip \div (2 ^ HostBits) = bytes}]

\* an entry of final_results: str(network) and f"{network_addr}/24" hold a
\* "/", str(ip) holds none
NetworkEntry(n) == [kind |-> "network", addr |-> n.addr,
                    prefixlen |-> n.prefixlen]
IpEntry(ip) == [kind |-> "ip", addr |-> ip, prefixlen |-> AddrBits]

\* lines 230-249: what the addresses ips of one C segment add to final_results
SegmentEntries(merged_networks, ips, bytes) ==
    LET c24_network == CSegment(bytes)
        is_covered == \E k \in 1..Len(merged_networks) :
                          supernet_of(merged_networks[k], c24_network)
    IN  IF is_covered THEN <<>>
        ELSE IF Cardinality(ips) >= 2 THEN <<NetworkEntry(c24_network)>>
        ELSE <<IpEntry(CHOOSE ip \in ips : TRUE)>>

\* lines 230-249: the loop over c_segments (in the order of the segments; the
\* order of a dict filled from a set is not told by the code)
RECURSIVE SegmentLoop(_, _, _)
SegmentLoop(merged_networks, c_segments, todo) ==
    IF todo = {} THEN <<>>
    ELSE LET bytes == CHOOSE b \in todo : \A c \in todo : b <= c
         IN  SegmentEntries(merged_networks, c_segments[bytes], bytes)
                 \o SegmentLoop(merged_networks, c_segments, todo \ {bytes})

\* lines 188-267: final_results (the lists are told by their sets, lines
\* 203-204 making sets of them)
clean_mixed_ip_list(ip_list, network_list) ==
    LET merge == merge_overlapping_networks(network_list)
        merged_networks == merge.list
        filter == filter_ips_by_networks(ip_list, merged_networks)
        c_segments == group_ips_by_c_segment(filter.filtered_ips)
    IN  IF merge.raised THEN Raises
        ELSE Returns([k \in 1..Len(merged_networks) |->
                         NetworkEntry(merged_networks[k])]
                     \o SegmentLoop(merged_networks, c_segments,
                                    DOMAIN c_segments))

NoClean ==
    [stage |-> "none", network_list |-> {}, ip_list |-> {},
     merged |-> Returns(<<>>), cleaned |-> Returns(<<>>)]

\* lines 47-62: the networks and the addresses read from the file
UpTo(n, S) == {{}} \cup {{f[i] : i \in 1..n} : f \in [1..n -> S]}
NetworkLists == UpTo(MaxNetworks, Networks)
IpLists == UpTo(MaxIps, Addresses)

\* the variables of the collector
collector == <<config, utc_start, utc_end, records, inject, harness, prior,
               output, sig, hour_ranges, hour_cache, total_requests,
               total_records, failed_hours, cache_hits, th, next_task, results,
               all_events, consumed, main_pc, computes, faults, attempts_made>>

\* an input of networks alone, or of addresses and a few networks
DrawInput ==
    /\ ipv4.stage = "none"
    /\ \E nets \in NetworkLists, ips \in IpLists :
          /\ ips # {} => Cardinality(nets) <= MaxCleanNetworks
          /\ ipv4' = [NoClean EXCEPT !.stage = "drawn", !.network_list = nets,
                                     !.ip_list = ips]
    /\ UNCHANGED collector

\* merge_overlapping_networks(network_list)
Merge ==
    /\ ipv4.stage = "drawn"
    /\ ipv4.ip_list = {}
    /\ ipv4' = [ipv4 EXCEPT
                  !.stage = "merged",
                  !.merged = merge_overlapping_networks(ipv4.network_list)]
    /\ UNCHANGED collector

\* clean_mixed_ip_list(ip_list, network_list)
Clean ==
    /\ ipv4.stage = "drawn"
    /\ Cardinality(ipv4.network_list) <= MaxCleanNetworks
    /\ ipv4' = [ipv4 EXCEPT
                  !.stage = "cleaned",
                  !.cleaned = clean_mixed_ip_list(ipv4.ip_list,
                                                  ipv4.network_list)]
    /\ UNCHANGED collector

\* ---------------------------------------------------------- specification
MinWindowChoices == 1..MaxMinWindow
MaxWindowChoices == {1, HourLen}
PrecisionChoices == 0..MaxPrecision

ConfigChoices ==
    [MIN_WINDOW_SECONDS : MinWindowChoices,
     MAX_WINDOW_SECONDS : MaxWindowChoices,
     BINARY_SEARCH_PRECISION_SECONDS : PrecisionChoices,
     ENABLE_PARALLEL : BOOLEAN,
     MAX_CONCURRENT_HOURS : 1..MaxWorkers]

\* one short hour; one whole hour; a start off the hour boundary, with a
\* second hour of one second and with a whole second hour
RangeChoices == {<<0, 1>>, <<0, HourLen>>, <<1, HourLen + 1>>, <<1, MaxT>>}

\* at most one event per second, at most MaxRecords events
RecordChoices == {b \in [T -> 0..1] : Count(b) <= MaxRecords}

\* k events in a row, the second of them on the boundary of the first two hours
DenseRecords ==
    {[t \in T |-> IF HourLen - 1 <= t /\ t <= HourLen - 2 + k THEN 1 ELSE 0] :
        k \in 0..MaxRecords}

InjectChoices ==
    {[tasks |-> {}, kind |-> "none"]} \cup
    [tasks : {{i} : i \in 1..MaxHours}, kind : {"permanent", "flaky", "raise"}]

\* Serial runs without injected faults are explored for every data set; runs
\* with faults, pool threads or a repeated hour for the dense data sets.  The
\* repeated hour is the first hour of a range that starts on the hour,
\* "flaky" tasks run on the serial path, pool threads run the widest search,
\* and a repeated hour on pool threads runs without injected faults.
Init ==
    /\ config \in ConfigChoices
    /\ ~config.ENABLE_PARALLEL => config.MAX_CONCURRENT_HOURS = MaxWorkers
    /\ config.ENABLE_PARALLEL =>
         /\ config.MIN_WINDOW_SECONDS = 1
         /\ config.MAX_WINDOW_SECONDS = HourLen
         /\ config.BINARY_SEARCH_PRECISION_SECONDS = MaxPrecision
    /\ \E r \in RangeChoices : utc_start = r[1] /\ utc_end = r[2]
    /\ harness \in BOOLEAN
    /\ harness => utc_start = 0
    /\ inject \in InjectChoices
    /\ inject.kind = "flaky" => ~config.ENABLE_PARALLEL
    /\ harness /\ config.ENABLE_PARALLEL => inject.kind = "none"
    /\ \A i \in inject.tasks :
         i <= IF harness THEN 2
              ELSE Len(split_time_range_by_hour(utc_start, utc_end))
    /\ records \in
         IF ~config.ENABLE_PARALLEL /\ ~harness /\ inject.kind = "none"
         THEN {b \in RecordChoices : \A t \in T : b[t] > 0 => t <= utc_end}
         ELSE DenseRecords
    /\ hour_ranges = <<>>
    /\ hour_cache = <<>>
    /\ total_requests = 0
    /\ total_records = 0
    /\ failed_hours = 0
    /\ cache_hits = 0
    /\ th = [t \in Threads |-> IdleLocal]
    /\ next_task = 1
    /\ results = <<>>
    /\ all_events = EmptyBag
    /\ consumed = {}
    /\ main_pc = "start"
    /\ computes = [k \in 0..MaxHours |-> 0]
    /\ faults = 0
    /\ attempts_made = 0
    /\ prior = <<>>
    /\ output = NoOutput
    /\ sig = NoSig
    /\ ipv4 = NoClean

Next ==
    \/ CollectStart
    \/ Save
    \/ Rerun
    \/ SameKeyStart
    \/ Aggregate
    \/ CollectReturn
    \/ \E t \in Threads :
         \/ StartTask(t)
         \/ CacheHit(t)
         \/ HitWrite(t)
         \/ CacheMiss(t)
         \/ ReqRead(t)
         \/ SendOk(t)
         \/ SendTransient(t)
         \/ SendUnsupported(t)
         \/ SendNoData(t)
         \/ StorePlan(t)
         \/ RecRead(t)
         \/ RecWrite(t)
         \/ Finish(t)
         \/ Raise(t)
         \/ FailWrite(t)

Spec == Init /\ [][Next]_vars

\* The runs checked for termination: as Init, with the records packed around
\* the end of the first hour, the failures of every kind met under one
\* configuration, and the parallel runs over one range of two hours, one of
\* which raises when one fails.
FairInit ==
    /\ Init
    /\ records \in DenseRecords
    /\ inject.kind = "flaky" =>
         /\ ~harness
         /\ config.MIN_WINDOW_SECONDS = 1
         /\ config.MAX_WINDOW_SECONDS = HourLen
         /\ config.BINARY_SEARCH_PRECISION_SECONDS = MaxPrecision
    /\ config.ENABLE_PARALLEL /\ ~harness =>
         utc_start = 1 /\ utc_end = HourLen + 1
    /\ config.ENABLE_PARALLEL /\ inject.kind # "none" => inject.kind = "raise"

\* the executor runs every submitted task, and a thread that can take a step
\* takes one
FairSpec == FairInit /\ [][Next]_vars /\ WF_vars(Next)

\* The cache keys of two filter configurations, for one range and one
\* configuration of the rest.
KeyInit ==
    /\ Init
    /\ ~config.ENABLE_PARALLEL
    /\ config.MIN_WINDOW_SECONDS = 1
    /\ config.MAX_WINDOW_SECONDS = HourLen
    /\ config.BINARY_SEARCH_PRECISION_SECONDS = 0
    /\ utc_end = HourLen + 1
    /\ ~harness
    /\ inject.kind = "none"
    /\ Count(records) = 0

KeyNext == DrawFilters \/ BuildKeys

KeySpec == KeyInit /\ [][KeyNext]_vars

\* The inputs of IPV4-CLEAN-CIDR.py, beside one collector that does not run.
CleanInit == KeyInit

CleanNext == DrawInput \/ Merge \/ Clean

CleanSpec == CleanInit /\ [][CleanNext]_vars

\* ------------------------------------------------------------------ claims
\* the thread holds a plan binary_search_optimal_window_seconds returns
HoldsPlan(l) ==
    \/ l.pc \in {"store", "rec_read", "rec_write", "finish"}
    \/ l.site = "collect"

\* the base interval of task i, as the strings the queries carry
BaseStart(i) == hour_ranges[i]
BaseEnd(i) == strftime(hour_end_dt(i))

IsPartition(ws, s, e) ==
    /\ Len(ws) >= 1
    /\ ws[1].start = s
    /\ ws[Len(ws)].end = e
    /\ \A j \in 1..Len(ws) : ws[j].start < ws[j].end
    /\ \A j \in 1..(Len(ws) - 1) : ws[j + 1].start = ws[j].end

\* C1: every plan binary_search_optimal_window_seconds returns, computed or
\* taken from the cache, partitions the base interval of its hour: it starts
\* at the hour's start, each window starts where the one before ends, every
\* window has start < end, and the last window ends at the hour's end.
C1_PlanIsPartition ==
    \A t \in Threads :
        HoldsPlan(th[t]) =>
            IsPartition(th[t].windows, BaseStart(th[t].task),
                        BaseEnd(th[t].task))

\* a computed plan of three windows or more, one of a probed duration and the
\* last one of the fallback duration
C1_Witness ==
    \E t \in Threads :
        /\ th[t].pc = "store"
        /\ Len(th[t].windows) >= 3
        /\ th[t].windows[Len(th[t].windows)].seconds = MinWindow
        /\ \E j \in 1..Len(th[t].windows) :
               th[t].windows[j].seconds # MinWindow

\* the plan was computed against a deterministic query service: no response
\* of the run is a failure
OracleRun == inject.kind = "none"

\* the query service reports the window as truncated
Truncated(w) == Parsed(w.start, w.end).is_truncated

\* C2 as stated: every window of a plan computed against a deterministic
\* oracle is reported non-truncated by it, except windows whose duration equals
\* MIN_WINDOW_SECONDS.
C2_Original ==
    \A t \in Threads :
        OracleRun /\ HoldsPlan(th[t]) =>
            \A j \in 1..Len(th[t].windows) :
                LET w == th[t].windows[j]
                IN  Truncated(w) =>
                        w.end - w.start = config.MIN_WINDOW_SECONDS

\* C2, amended: every window of a plan computed against a deterministic oracle
\* is reported non-truncated by it, except the windows for which
\* find_optimal_seconds returned its fallback MIN_WINDOW_SECONDS; such a
\* window lasts MIN_WINDOW_SECONDS, or less when it is cut at the end of the
\* base interval.
C2_NonTruncatedUnlessFallback ==
    \A t \in Threads :
        OracleRun /\ HoldsPlan(th[t]) =>
            \A j \in 1..Len(th[t].windows) :
                LET w == th[t].windows[j]
                IN  Truncated(w) =>
                        /\ w.seconds = MinWindow
                        /\ w.end - w.start <= config.MIN_WINDOW_SECONDS
                        /\ w.end - w.start < config.MIN_WINDOW_SECONDS
                               => w.end = BaseEnd(th[t].task)

\* a computed plan with a probed window and a truncated fallback window
C2_Witness ==
    \E t \in Threads :
        /\ OracleRun
        /\ th[t].pc = "store"
        /\ \E j \in 1..Len(th[t].windows) :
               /\ th[t].windows[j].seconds # MinWindow
               /\ th[t].windows[j].seconds # HourLen * FU
        /\ \E j \in 1..Len(th[t].windows) : Truncated(th[t].windows[j])

\* C3: when the query of the whole base interval comes back non-truncated
\* (cache miss), the plan is the one window of the whole base interval, and
\* the planning made that one query and no probe.
C3_SingleWindowWhenNotTruncated ==
    \A t \in Threads :
        th[t].pc = "store" /\ ~th[t].full_truncated =>
            /\ Len(th[t].windows) = 1
            /\ th[t].windows[1].start = BaseStart(th[t].task)
            /\ th[t].windows[1].end = BaseEnd(th[t].task)
            /\ th[t].plan_queries = 1

\* the whole hour answered with data, below the limit, after a retry
C3_Witness ==
    \E t \in Threads :
        /\ th[t].pc = "store"
        /\ ~th[t].full_truncated
        /\ th[t].ret.outcome = "ok"
        /\ th[t].ret.count > 0
        /\ th[t].ret.attempts > 1

\* C4 as stated: when the whole base interval is truncated and every window
\* of the plan is non-truncated, the records collected over the plan are as
\* many as the records of the base interval.  The code does not meet it:
\* the windows are closed at both ends (C14), so a record on the second two
\* windows share is collected twice.
C4_CollectedCountIsExact ==
    \A t \in Threads :
        LET l == th[t]
        IN  /\ OracleRun
            /\ l.pc = "rec_read"
            /\ Truncated([start |-> BaseStart(l.task),
                          end |-> BaseEnd(l.task)])
            /\ \A j \in 1..Len(l.windows) : ~Truncated(l.windows[j])
            => Count(l.hour_events)
                   = Count(Matching(BaseStart(l.task), BaseEnd(l.task)))

\* C5 as stated: the plan of one cache key is computed at most once, callers
\* that ask for the key concurrently included.  The code does not meet it:
\* the lookup and the store of hour_cache are not one atomic step.
C5_PlanComputedOnce ==
    \A k \in DOMAIN computes : computes[k] <= 1

\* the queries of l, each answered at once by the query service
RECURSIVE Answered(_)
Answered(l) ==
    IF l.pc = "req_read"
    THEN Answered(ReturnQuery(l, Parsed(l.qs, l.qe)))
    ELSE l

\* the plan and the records of hour i when nothing fails
ExpectedPlan(i) ==
    Answered(BeginQuery([IdleLocal EXCEPT !.task = i], "full", BaseStart(i),
                        BaseEnd(i))).windows
ExpectedEvents(i) ==
    Answered(CollectLoop([IdleLocal EXCEPT !.task = i, !.widx = 1,
                                           !.windows = ExpectedPlan(i)])
            ).hour_events

RECURSIVE SumResults(_)
SumResults(n) ==
    IF n = 0 THEN EmptyBag ELSE BagSum(SumResults(n - 1), results[n].events)

C7_PermanentFailureCounted ==
    main_pc = "done" /\ inject.kind = "permanent"
        /\ inject.tasks \subseteq Tasks
        => failed_hours = Cardinality(inject.tasks)

\* C8: a call of get_firewall_events_for_window that succeeds after k
\* transient failures, k < REQUEST_RETRY_COUNT, returns the result of the
\* query service, after k + 1 attempts; while one thread runs, total_requests
\* counts every attempt made, retries included.
C8_RetryThenSuccess ==
    /\ \A t \in Threads :
          th[t].ret.outcome = "ok" =>
              /\ th[t].ret.attempts <= REQUEST_RETRY_COUNT
              /\ th[t].ret.events = Served(th[t].ret.qs, th[t].ret.qe)
              /\ th[t].ret.count = Count(th[t].ret.events)
    /\ ~Parallel => total_requests = attempts_made

\* a call that returned records at its last permitted attempt
C8_Witness ==
    /\ ~Parallel
    /\ \E t \in Threads :
          /\ th[t].ret.outcome = "ok"
          /\ th[t].ret.attempts = REQUEST_RETRY_COUNT
          /\ th[t].ret.count > 0
    /\ total_requests >= REQUEST_RETRY_COUNT

\* C9 as stated: a call that exhausts its retries returns the empty sentinel
\* and the failure is recorded in the run's statistics.  The code does not
\* meet it: the sentinel is returned, and no statistic but the request count
\* changes.
C9_ExhaustionRecorded ==
    \A t \in Threads :
        th[t].ret.outcome = "exhausted" =>
            /\ th[t].ret.attempts = REQUEST_RETRY_COUNT
            /\ th[t].ret.count = 0
            /\ ~th[t].ret.is_truncated
            /\ failed_hours >= 1

RequestsBelowCap == total_requests < MaxRequests /\ attempts_made < MaxRequests


\* C11 as stated: in parallel mode, when the run ends, total_requests is the
\* number of attempts made, total_records the number of records the workers
\* collected and failed_hours the number of workers that failed.  The code
\* does not meet it: self.total_requests += 1 is a read and a write with no
\* lock, and an update made between the two is lost.
C11_CountersAreExact ==
    main_pc = "done" /\ Parallel =>
        /\ total_requests = attempts_made
        /\ inject.kind = "none" => total_records = Count(all_events)
        /\ inject.kind = "raise" => failed_hours = faults

\* the hours being processed
Busy == {t \in Threads : th[t].pc # "idle"}

\* C12: in parallel mode at most MAX_CONCURRENT_HOURS hours are being
\* processed at any moment, no hour is processed by two workers, an hour
\* that returned is processed by none, and the hours are handed out in order,
\* each once.
C12_BoundedPool ==
    Parallel =>
        /\ Cardinality(Busy) <= config.MAX_CONCURRENT_HOURS
        /\ \A t, u \in Busy : th[t].task = th[u].task => t = u
        /\ \A t \in Busy : th[t].task < next_task /\ ~results[th[t].task].done
        /\ \A i \in Tasks : results[i].done => i < next_task
        /\ \A i \in Tasks :
              i < next_task =>
                  results[i].done \/ \E t \in Busy : th[t].task = i

\* the pool is full and an hour waits for a worker
C12_Witness ==
    /\ Parallel
    /\ Cardinality(Busy) = config.MAX_CONCURRENT_HOURS
    /\ config.MAX_CONCURRENT_HOURS < MaxWorkers
    /\ next_task <= Len(hour_ranges)
    /\ \E t \in Busy : th[t].pc = "req_send"

\* C13 as stated: the base intervals of a range with globalStart < globalEnd
\* are contiguous, at most one hour long each, the last one ends at
\* globalEnd, and the first one starts at globalStart.  The code does not
\* meet the last part: the first base interval starts at the hour that
\* holds globalStart.
C13_BaseIntervalsCoverRange ==
    main_pc # "start" /\ ~harness =>
        /\ Len(hour_ranges) >= 1
        /\ hour_ranges[1] = utc_start
        /\ BaseEnd(Len(hour_ranges)) = utc_end
        /\ \A i \in Tasks : BaseStart(i) < BaseEnd(i)
                            /\ BaseEnd(i) - BaseStart(i) <= HourLen
        /\ \A i \in 1..(Len(hour_ranges) - 1) : BaseStart(i + 1) = BaseEnd(i)

\* C14 as stated: a record on the second two adjacent windows of a plan share
\* is returned by exactly one of the two window queries.  The code does not
\* meet it: the filter is datetime_geq = start, datetime_leq = end, closed at
\* both ends.
C14_BoundaryRecordOnce ==
    \A t \in Threads :
        OracleRun /\ HoldsPlan(th[t]) =>
            \A j \in 1..(Len(th[t].windows) - 1) :
                LET w1 == th[t].windows[j]
                    w2 == th[t].windows[j + 1]
                IN  ~Truncated(w1) /\ ~Truncated(w2) =>
                        Served(w1.start, w1.end)[w1.end]
                            + Served(w2.start, w2.end)[w1.end]
                        = records[w1.end]


\* C15 as stated: collect_data run twice with the same inputs against a
\* deterministic oracle returns as many records the second time as the first,
\* and its statistics, cache hits aside, grow by as much.  The code does not
\* meet it: the second run takes its plans from hour_cache and issues fewer
\* requests.
C15_SecondRunAlike ==
    main_pc = "done" /\ Len(prior) = 1 =>
        /\ Count(all_events) = prior[1].count
        /\ total_requests - prior[1].total_requests = prior[1].total_requests
        /\ total_records - prior[1].total_records = prior[1].total_records
        /\ failed_hours - prior[1].failed_hours = prior[1].failed_hours

\* C16: a file is written only once collect_data has returned, when every
\* hour's worker has completed and its result is in all_events, and what is
\* written is all_events whole; at every earlier point of a run, where an
\* abort would stop it, nothing is written.
C16_OutputAfterAllWorkers ==
    /\ main_pc # "saved" => output = NoOutput
    /\ output.written =>
          /\ Busy = {}
          /\ consumed = Tasks
          /\ \A i \in Tasks : results[i].done
          /\ output.events = SumResults(Len(hour_ranges))
    /\ ~output.written => output.events = EmptyBag \/ main_pc = "saved"

\* a parallel run that wrote the records of the hours that did not fail
C16_Witness ==
    /\ output.written
    /\ Parallel
    /\ failed_hours = 1


\* C17 as stated: when the query service rejects a filter field, what the call
\* returns can be told apart from a genuine empty, non-truncated result.  The
\* code does not meet it: it returns [], 0, False in both cases.
C17_UnsupportedIsDistinct ==
    \A t \in Threads :
        th[t].ret.outcome = "unsupported" =>
            <<th[t].ret.events, th[t].ret.count, th[t].ret.is_truncated>>
                # <<EmptyBag, 0, FALSE>>

\* the plans computed by a search: those of a truncated hour
SearchedPlan(l) == l.pc = "store" /\ l.full_truncated

\* C19 as stated: the duration find_optimal_seconds returns is one it probed
\* in that call, and whose probe was not truncated.  The code does not meet
\* it: MIN_WINDOW_SECONDS is returned without a probe of it, when no probe
\* was made and when every probe truncated.
C19_ReturnedDurationWasProbed ==
    \A t \in Threads :
        SearchedPlan(th[t]) =>
            \A j \in 1..Len(th[t].windows) :
                <<th[t].windows[j].seconds, FALSE>> \in th[t].windows[j].probes

\* every probe of the window's search truncated
AllTruncated(w) == w.probes # {} /\ \A p \in w.probes : p[2]

\* C20: in the planning loop, a search whose every probe truncates gives a
\* window of MIN_WINDOW_SECONDS, cut at the hour's end, and every window moves
\* the cursor forward, by MIN_WINDOW_SECONDS at least or to the hour's end.
C20_ForwardProgress ==
    \A t \in Threads :
        SearchedPlan(th[t]) =>
            \A j \in 1..Len(th[t].windows) :
                LET w == th[t].windows[j]
                    he == hour_end_dt(th[t].task)
                IN  /\ AllTruncated(w) =>
                           /\ w.seconds = MinWindow
                           /\ w.to = Min2(w.from + MinWindow, he)
                    /\ w.from < w.to
                    /\ w.to - w.from >= Min2(MinWindow, he - w.from)

\* a plan with a window whose probes all truncated and a window cut at the
\* hour's end
C20_Witness ==
    \E t \in Threads :
        /\ SearchedPlan(th[t])
        /\ \E j \in 1..Len(th[t].windows) : AllTruncated(th[t].windows[j])
        /\ \E j \in 1..Len(th[t].windows) :
               th[t].windows[j].to - th[t].windows[j].from < MinWindow


\* b lists the countries of a in another order
Permutation(a, b) ==
    /\ Len(a) = Len(b)
    /\ {a[i] : i \in 1..Len(a)} = {b[i] : i \in 1..Len(b)}

\* C18 as stated: two configurations whose country lists are permutations of
\* each other give the same cache key for the same hour.  The code does not
\* meet it: FILTER_COUNTRIES goes into the key in the order it is listed.
C18_KeyIgnoresOrder ==
    sig.stage = "built" /\ Permutation(sig.a, sig.b) => sig.key_a = sig.key_b

\* the thread is inside get_firewall_events_for_window, between two attempts
\* or with a request out
InQuery(l) == l.pc \in {"req_read", "req_send"}

\* C21 as stated: every query of a run, of the whole hour, of a probe or of
\* collection, asks for a window within the configured range, start >=
\* globalStart and end <= globalEnd, also when globalStart is not on an hour
\* boundary.  The code does not meet it: the first base interval starts at
\* the hour that holds globalStart (C13), and so do its first queries.
C21_QueryWithinRange ==
    \A t \in Threads :
        InQuery(th[t]) =>
            /\ utc_start <= th[t].qs
            /\ th[t].qs <= th[t].qe
            /\ th[t].qe <= utc_end

\* the query of the whole hour, the one query of the planning, has just
\* returned for want of retries
FullQueryExhausted(l) ==
    l.pc = "store" /\ l.plan_queries = 1 /\ l.ret.outcome = "exhausted"

\* C22 as stated: when the query of the whole base interval fails at every
\* attempt, no plan is stored in hour_cache for its key and the cache is left
\* as it was.  The code does not meet it: the call returns [], 0, False, which
\* reads as a non-truncated hour, and the one-window plan is cached.
C22_NoPlanCachedOnFailure ==
    [][\A t \in Threads :
          FullQueryExhausted(th[t]) /\ th'[t].pc # "store" =>
              hour_cache' = hour_cache]_vars

\* the durations the search of window w probed and saw not truncated
NonTruncatedProbes(w) == {p[1] : p \in {q \in w.probes : ~q[2]}}

\* C23: when a probe of a call of find_optimal_seconds is not truncated, the
\* duration the call returns is the largest of the durations it probed and saw
\* not truncated; and the duration it returns is never one it saw truncated.
C23_LargestNonTruncatedProbe ==
    \A t \in Threads :
        SearchedPlan(th[t]) =>
            \A j \in 1..Len(th[t].windows) :
                LET w == th[t].windows[j]
                IN  /\ NonTruncatedProbes(w) # {} =>
                           /\ w.seconds \in NonTruncatedProbes(w)
                           /\ \A d \in NonTruncatedProbes(w) : d <= w.seconds
                    /\ <<w.seconds, TRUE>> \notin w.probes

\* a plan with a search that saw two durations not truncated and a search
\* that saw one duration truncated and took a shorter one
C23_Witness ==
    \E t \in Threads :
        /\ SearchedPlan(th[t])
        /\ \E j \in 1..Len(th[t].windows) :
               Cardinality(NonTruncatedProbes(th[t].windows[j])) >= 2
        /\ \E j \in 1..Len(th[t].windows) :
               LET w == th[t].windows[j]
               IN  /\ NonTruncatedProbes(w) # {}
                   /\ \E p \in w.probes : p[2] /\ p[1] > w.seconds

\* the thread has a probe of find_optimal_seconds out
Probing(l) == InQuery(l) /\ l.site = "probe"

\* the bounds find_optimal_seconds starts from for a window cut at from, in
\* the hour that ends at he
InitialLow == MinWindow
InitialHigh(from, he) == Min2(he - from, MaxWindow)

\* C24: a call of find_optimal_seconds makes BINARY_SEARCH_MAX_ITERATIONS
\* probes at most, makes a probe only while high - low >
\* BINARY_SEARCH_PRECISION_SECONDS, probes durations between
\* MIN_WINDOW_SECONDS and MAX_WINDOW_SECONDS, and makes no probe when the
\* bounds it starts from are within the precision of each other.
C24_SearchIsBounded ==
    \A t \in Threads :
        LET l == th[t]
        IN  /\ Probing(l) =>
                   /\ l.iteration < BINARY_SEARCH_MAX_ITERATIONS
                   /\ Cardinality(l.probes) = l.iteration
                   /\ l.right - l.left > Precision
                   /\ MinWindow <= l.mid /\ l.mid <= MaxWindow
                   /\ l.left <= l.mid /\ l.mid <= l.right
            /\ SearchedPlan(l) =>
                   \A j \in 1..Len(l.windows) :
                       LET w == l.windows[j]
                       IN  /\ Cardinality(w.probes)
                                  <= BINARY_SEARCH_MAX_ITERATIONS
                           /\ InitialHigh(w.from, hour_end_dt(l.task))
                                  - InitialLow <= Precision
                                  => w.probes = {} /\ w.seconds = MinWindow

\* a plan with a search that made every probe it may and a search that made
\* none, its bounds being too close
C24_Witness ==
    \E t \in Threads :
        /\ SearchedPlan(th[t])
        /\ \E j \in 1..Len(th[t].windows) :
               Cardinality(th[t].windows[j].probes)
                   = BINARY_SEARCH_MAX_ITERATIONS
        /\ \E j \in 1..Len(th[t].windows) :
               /\ th[t].windows[j].probes = {}
               /\ InitialHigh(th[t].windows[j].from, hour_end_dt(th[t].task))
                      - InitialLow <= Precision

\* the collection of the hour is over; the query of the whole hour, a cache
\* miss, was answered at its first attempt and was not truncated
FirstTryHour(l) ==
    /\ l.pc = "rec_read"
    /\ l.full_ret.outcome = "ok"
    /\ l.full_ret.attempts = 1
    /\ ~l.full_ret.is_truncated

\* C25 as stated: an hour whose query of the whole hour is answered, not
\* truncated, at the first attempt sends exactly two requests, both for the
\* window of the whole hour, and total_requests grows by 2 for the hour.
C25_Original ==
    \A t \in Threads :
        FirstTryHour(th[t]) =>
            /\ th[t].sent = 2
            /\ ~Parallel => total_requests = th[t].req0 + 2

\* C25, amended: every window of a plan is queried again once the planning is
\* over; an hour whose query of the whole hour is answered, not truncated, at
\* the first attempt, and whose collection query ends at its first attempt
\* too, sends exactly two requests, both for the window of the whole hour, the
\* second of which returns the records the first one counted; total_requests
\* grows by 2 for the hour (on the serial path, where no update is lost).
C25_WindowQueriedTwice ==
    \A t \in Threads :
        LET l == th[t]
        IN  /\ l.pc = "rec_read" =>
                   /\ l.widx = Len(l.windows) + 1
                   /\ l.sent >= l.plan_queries + Len(l.windows)
            /\ FirstTryHour(l) =>
                   /\ Len(l.windows) = 1
                   /\ l.ret.qs = l.full_ret.qs /\ l.ret.qe = l.full_ret.qe
                   /\ l.ret.qs = l.windows[1].start
                   /\ l.ret.qe = l.windows[1].end
                   /\ l.ret.attempts = 1 =>
                          /\ l.sent = 2
                          /\ ~Parallel => total_requests = l.req0 + 2
                          /\ l.ret.outcome = "ok" =>
                                 l.hour_events = l.full_ret.events

\* the second hour of a serial run, its records asked for twice and answered
\* at the first attempt both times
C25_Witness ==
    \E t \in Threads :
        /\ FirstTryHour(th[t])
        /\ ~Parallel
        /\ th[t].task = 2
        /\ th[t].ret.outcome = "ok"
        /\ th[t].ret.attempts = 1
        /\ th[t].ret.count > 0
        /\ th[t].sent = 2
        /\ th[t].req0 > 0

\* the thread is between two attempts of one query
Retrying(l) == l.pc = "req_read" /\ l.attempt > 0

\* C26 as stated: between two consecutive attempts of one query, however the
\* earlier attempt failed, the thread sleeps REQUEST_RETRY_DELAY.  The code
\* does not meet it: after a body that is no JSON and after an API error that
\* names no field the loop goes on at once.
C26_DelayBetweenAttempts ==
    \A t \in Threads :
        Retrying(th[t]) => th[t].slept = REQUEST_RETRY_DELAY

\* the failures the interface of the query executor calls fatal
FatalKinds == {"unauthorized", "bad_request"}

\* C27 as stated: only transient failures (rate limit, timeout, 5xx) are
\* tried again; an attempt that meets an authentication failure or a
\* malformed request is the last of its call.  The code does not meet it:
\* every status that is not 200 is tried again.
C27_FatalNotRetried ==
    \A t \in Threads :
        Retrying(th[t]) => th[t].failure \notin FatalKinds

\* the first collect_data of a collector, over the hours of its range
FreshRun == ~harness /\ Len(prior) = 0 /\ main_pc # "start"

\* C28: in one run of collect_data on a fresh collector the base intervals
\* have cache keys that differ two by two, no lookup of the cache hits,
\* cache_hits is 0 when the run ends, and one plan is computed for each base
\* interval (none for an hour that an exception ends before its planning),
\* whatever the range.
C28_NoHitInFreshRun ==
    FreshRun =>
        /\ \A i, j \in Tasks : i # j => cache_key(i) # cache_key(j)
        /\ cache_hits = 0
        /\ \A t \in Threads : th[t].pc # "hit_write"
        /\ \A i \in Tasks : computes[cache_key(i)] <= 1
        /\ main_pc = "done" =>
              \A i \in Tasks :
                  ~Injected(i) => /\ computes[cache_key(i)] = 1
                                  /\ cache_key(i) \in DOMAIN hour_cache

\* a parallel run of two hours, over a range that starts off the hour, ended
\* with two plans computed and no hit
C28_Witness ==
    /\ FreshRun
    /\ main_pc = "done"
    /\ Parallel
    /\ utc_start % HourLen # 0
    /\ Len(hour_ranges) = 2
    /\ cache_hits = 0
    /\ \A i \in Tasks : computes[cache_key(i)] = 1

\* the queries of hour i when nothing fails: those of its planning and one
\* for each window of its plan
ExpectedQueries(i) ==
    Answered(BeginQuery([IdleLocal EXCEPT !.task = i], "full", BaseStart(i),
                        BaseEnd(i))).plan_queries
        + Len(ExpectedPlan(i))

\* what the serial loop returns and sends over the first n hours when nothing
\* fails
RECURSIVE SerialEvents(_), SerialQueries(_)
SerialEvents(n) ==
    IF n = 0 THEN EmptyBag ELSE BagSum(SerialEvents(n - 1), ExpectedEvents(n))
SerialQueries(n) ==
    IF n = 0 THEN 0 ELSE SerialQueries(n - 1) + ExpectedQueries(n)

\* C29: against a deterministic query service, collect_data returns in
\* parallel mode, however the workers interleave, the records it returns in
\* serial mode on the same inputs, as many times each, and sends as many
\* queries.
C29_ParallelAsSerial ==
    OracleRun /\ FreshRun /\ main_pc = "done" =>
        /\ all_events = SerialEvents(Len(hour_ranges))
        /\ attempts_made = SerialQueries(Len(hour_ranges))

\* a parallel run that returned the records of two hours, with an update of
\* total_requests lost between its workers
C29_Witness ==
    /\ OracleRun
    /\ FreshRun
    /\ main_pc = "done"
    /\ Parallel
    /\ config.MAX_CONCURRENT_HOURS > 1
    /\ \A i \in Tasks : Count(results[i].events) > 0
    /\ total_requests < attempts_made

\* the planning cursor of l: the start of the hour, then the end of the last
\* window found
Cursor(l) ==
    IF l.windows = <<>> THEN hour_start_dt(l.task)
    ELSE l.windows[Len(l.windows)].to

\* the number of windows the collection loop of l has queried
Queried(l) ==
    IF l.pc = "store" THEN 0
    ELSE IF l.site = "collect" THEN l.widx
    ELSE Len(l.windows)

\* C30: within a base interval the planning cursor only moves forward, each
\* window being found at the end of the one before, and the collection loop
\* queries the windows in the order of the plan, window i before window
\* i + 1, whose start is at or after the end of window i.
C30_ChronologicalOrder ==
    \A t \in Threads :
        LET l == th[t]
        IN  /\ Probing(l) =>
                   /\ l.current = Cursor(l)
                   /\ l.current < hour_end_dt(l.task)
                   /\ l.qs = strftime(l.current)
            /\ Probing(l) \/ SearchedPlan(l) =>
                   \A j \in 1..Len(l.windows) :
                       /\ l.windows[j].from < l.windows[j].to
                       /\ j > 1 => l.windows[j].from = l.windows[j - 1].to
            /\ HoldsPlan(l) =>
                   /\ Len(l.asked) = Queried(l)
                   /\ \A k \in 1..Len(l.asked) :
                          l.asked[k] = <<l.windows[k].start, l.windows[k].end>>
                   /\ \A k \in 1..(Len(l.windows) - 1) :
                          l.windows[k + 1].start >= l.windows[k].end

\* the third window of a plan found by search is being queried
C30_Witness ==
    \E t \in Threads :
        /\ th[t].site = "collect"
        /\ InQuery(th[t])
        /\ th[t].full_truncated
        /\ Len(th[t].asked) >= 3
        /\ th[t].asked[1] # th[t].asked[3]

\* the query of the whole hour, the one query of the planning, has just
\* returned on an error that names an unsupported field
FullQueryUnsupported(l) ==
    l.pc = "store" /\ l.plan_queries = 1 /\ l.ret.outcome = "unsupported"

\* C31: a response with an error that names an unsupported field ends the
\* call at that attempt: the attempts that are followed by another are those
\* that failed in another way, the call returns [], 0, False, and
\* total_requests has counted the attempts made up to that one and no more.
C31_UnsupportedReturnsAtOnce ==
    \A t \in Threads :
        LET l == th[t]
        IN  /\ Retrying(l) => l.failure \in TransientKinds
            /\ l.ret.outcome = "unsupported" =>
                   /\ l.ret.attempts \in 1..REQUEST_RETRY_COUNT
                   /\ l.ret.count = 0
                   /\ l.ret.events = EmptyBag
                   /\ ~l.ret.is_truncated
            /\ FullQueryUnsupported(l) =>
                   /\ l.sent = l.ret.attempts
                   /\ ~Parallel => total_requests = l.req0 + l.ret.attempts

\* the second attempt of the query of the whole hour met the error, and no
\* third attempt was made
C31_Witness ==
    \E t \in Threads :
        /\ FullQueryUnsupported(th[t])
        /\ th[t].ret.attempts = 2
        /\ th[t].sent = 2
        /\ total_requests = th[t].req0 + 2

\* r is what a call of get_firewall_events_for_window returned
IsReturn(r) == r.outcome # "none"

\* the flag of r goes with its count, and its count with its records
FlagMatchesCount(r) ==
    /\ r.is_truncated <=> r.count = API_LIMIT
    /\ r.count = Count(r.events)

\* C32: whichever way get_firewall_events_for_window returns, with records,
\* with no data, on an unsupported field or for want of retries, the flag it
\* returns is true exactly when the count it returns is API_LIMIT, the row
\* limit of the query, and the count is the number of records it returns.
C32_TruncatedIffLimit ==
    \A t \in Threads :
        /\ IsReturn(th[t].ret) => FlagMatchesCount(th[t].ret)
        /\ IsReturn(th[t].full_ret) => FlagMatchesCount(th[t].full_ret)

\* a probe returned API_LIMIT records of a window that holds more, with the
\* flag raised
C32_Witness ==
    \E t \in Threads :
        /\ th[t].ret.outcome = "ok"
        /\ th[t].ret.is_truncated
        /\ th[t].ret.count = API_LIMIT
        /\ Count(Matching(th[t].ret.qs, th[t].ret.qe)) > API_LIMIT
        /\ th[t].plan_queries > 1
        /\ th[t].full_ret.is_truncated

\* C33: when MIN_WINDOW_SECONDS <= MAX_WINDOW_SECONDS, every window of the
\* plan of a truncated base interval lasts MAX_WINDOW_SECONDS at most, and
\* every window but the last lasts MIN_WINDOW_SECONDS at least; so for the
\* duration find_optimal_seconds returned, for the datetimes the window was
\* cut at and for the strings its queries carry.
C33_WindowDurationBounds ==
    \A t \in Threads :
        SearchedPlan(th[t]) /\ MinWindow <= MaxWindow =>
            \A j \in 1..Len(th[t].windows) :
                LET w == th[t].windows[j]
                IN  /\ w.seconds <= MaxWindow
                    /\ w.to - w.from <= MaxWindow
                    /\ w.end - w.start <= config.MAX_WINDOW_SECONDS
                    /\ j < Len(th[t].windows) =>
                           /\ w.seconds >= MinWindow
                           /\ w.to - w.from >= MinWindow
                           /\ w.end - w.start >= config.MIN_WINDOW_SECONDS

\* a plan with a window of a probed duration, between the two bounds, and a
\* last window shorter than MIN_WINDOW_SECONDS
C33_Witness ==
    \E t \in Threads :
        /\ SearchedPlan(th[t])
        /\ MinWindow < MaxWindow
        /\ Len(th[t].windows) >= 2
        /\ \E j \in 1..(Len(th[t].windows) - 1) :
               /\ th[t].windows[j].seconds > MinWindow
               /\ th[t].windows[j].seconds < MaxWindow
        /\ LET w == th[t].windows[Len(th[t].windows)]
           IN  w.to - w.from < MinWindow

\* C34 as stated: when collect_data ends in serial mode on a fresh collector,
\* total_records is the number of records it returns, whatever the query
\* service does and also when an hour fails with an exception, the records
\* of such an hour being neither returned nor counted.  The code does not
\* meet it: an exception raised after line 561, by the print that reports the
\* hour, finds the hour's records counted, and the handler returns none.
C34_TotalRecordsIsReturned ==
    FreshRun /\ ~Parallel /\ main_pc = "done" =>
        total_records = Count(all_events)

\* no address belongs to two networks of the list
PairwiseDisjoint(list) ==
    \A i, j \in 1..Len(list) :
        i # j => \A ip \in Addresses :
                     ~(InNetwork(ip, list[i]) /\ InNetwork(ip, list[j]))

\* every address of every network of the input belongs to a network of the
\* list
CoversNetworks(list, network_list) ==
    \A n \in network_list :
        \A ip \in Addresses :
            InNetwork(ip, n) => \E k \in 1..Len(list) : InNetwork(ip, list[k])

\* C35 as stated: for every list of networks merge_overlapping_networks
\* returns networks no two of which share an address and which hold every
\* address of every network given.  The code does not meet it: two networks
\* that touch within a C segment are replaced by the segment, which may hold a
\* network returned before it; and the call raises when a network follows
\* one that ends at the last address.
C35_MergedDisjointAndCovering ==
    ipv4.stage = "merged" =>
        /\ ~ipv4.merged.raised
        /\ PairwiseDisjoint(ipv4.merged.list)
        /\ CoversNetworks(ipv4.merged.list, ipv4.network_list)

\* the entries of a list of final_results
Entries(list) == {list[k] : k \in 1..Len(list)}

\* the address belongs to an entry: to a network, or it is the entry
InEntry(ip, e) ==
    IF e.kind = "network" THEN InNetwork(ip, e) ELSE e.addr = ip

\* the addresses of the input that no merged network holds, and those of
\* them in the C segment of an address
FreeIps ==
    {ip \in ipv4.ip_list :
        ~\E n \in Entries(merge_overlapping_networks(ipv4.network_list).list) :
            InNetwork(ip, n)}
FreeIpsOfSegment(ip) == {other \in FreeIps : FirstBytes([addr |-> other])
                                                = FirstBytes([addr |-> ip])}

\* what C36 tells of a list of final_results
CleanedAsTold(list) ==
    /\ \A ip \in Addresses :
          (\/ ip \in ipv4.ip_list
           \/ \E n \in ipv4.network_list : InNetwork(ip, n))
              => \E e \in Entries(list) : InEntry(ip, e)
    /\ \A ip \in ipv4.ip_list \ FreeIps : IpEntry(ip) \notin Entries(list)
    /\ \A ip \in FreeIps :
          IF Cardinality(FreeIpsOfSegment(ip)) >= 2
          THEN /\ NetworkEntry(CSegment(FirstBytes([addr |-> ip])))
                      \in Entries(list)
               /\ IpEntry(ip) \notin Entries(list)
          ELSE IpEntry(ip) \in Entries(list)

\* C36 as stated: for every input of addresses and networks
\* clean_mixed_ip_list returns entries that hold every address and every
\* network given; the addresses no merged network holds are grouped by C
\* segment, a segment with two of them or more giving the one network of the
\* segment, a segment with one of them giving that address; and an address a
\* network holds is not given apart.  The code does not meet it: the call
\* raises with merge_overlapping_networks (C35) and returns nothing.
C36_CleanedCoversAndGroups ==
    ipv4.stage = "cleaned" =>
        /\ ~ipv4.cleaned.raised
        /\ CleanedAsTold(ipv4.cleaned.list)

====
